---- MODULE Spec2Model ----
(***************************************************************************)
(* ACE Network Protocol (lib/saq/anp.py).                                  *)
(*                                                                         *)
(* Two state machines over one set of variables:                           *)
(*   Spec / FairSpec : ACENetworkProtocolServer -- the accept loop, one    *)
(*                     worker per connection, start() and stop().          *)
(*   CodecSpec       : ANPSocket -- the framing routines applied to a byte *)
(*                     stream whose recv may return short reads.           *)
(***************************************************************************)
EXTENDS Integers, Sequences, FiniteSets, TLC

\* ------------------------------------------------------------------ bounds

\* Number of clients that may connect to the server.
MaxClients == 2

\* Number of frames sent and not yet decoded, all connections together.
MaxInFlight == 1

\* Number of characters of the longest text sent as a string parameter.
MaxTextLen == 2

\* Length of the longest stream, and the largest count, given to read_n_bytes.
MaxStream == 8
MaxCount == 6

\* io.DEFAULT_BUFFER_SIZE (8192 in CPython) and DEFAULT_CHUNK_SIZE (256 KiB),
\* scaled down. The buffer size is kept no smaller than a uint, as in the
\* program, so that a uint is read with one recv(4); the chunk size is kept
\* larger than the buffer size.
DEFAULT_BUFFER_SIZE == 4
DEFAULT_CHUNK_SIZE == 8

\* ------------------------------------------------------- program constants

\* struct.calcsize(UINT_FORMAT)
UINT_SIZE == 4

\* a chunk of size 0 indicates it is the last chunk
LAST_CHUNK == << >>

\* The first byte of every output of the model's encrypt_chunk.
CIPHER_MARK == 170

ANP_COMMAND_EXIT == 1
ANP_COMMAND_REGISTER == 2
ANP_COMMAND_OK == 3
ANP_COMMAND_ERROR == 4
ANP_COMMAND_PING == 5
ANP_COMMAND_PONG == 6
ANP_COMMAND_AVAILABLE == 7
ANP_COMMAND_COPY_FILE == 8
ANP_COMMAND_PROCESS == 9
ANP_COMMAND_BUSY == 10

\* The keys of ANP_CLASS_LOOKUP.
ANP_CLASS_LOOKUP ==
    { ANP_COMMAND_EXIT, ANP_COMMAND_REGISTER, ANP_COMMAND_OK, ANP_COMMAND_ERROR,
      ANP_COMMAND_PING, ANP_COMMAND_PONG, ANP_COMMAND_AVAILABLE,
      ANP_COMMAND_COPY_FILE, ANP_COMMAND_PROCESS, ANP_COMMAND_BUSY }

Clients == 1 .. MaxClients

\* The command ids the clients of the server model put on the wire: EXIT, one
\* that goes to the handler, and one that is in no lookup table.
SentCommands == { ANP_COMMAND_EXIT, ANP_COMMAND_REGISTER, 9999 }

VARIABLES
    \* ---- ACENetworkProtocolServer
    control_event,        \* "None" before start(), then "unset" / "set"
    tcp_server_thread,    \* position of the accept loop thread
    tcp_server_socket,    \* "None" or "open"
    tcp_client_threads,   \* the list of connection workers
    stop_pc,              \* position of the caller of stop()
    \* ---- one connection (client c and its worker)
    client_pc,            \* position of client c's connection / worker
    client_socket,        \* server side socket of connection c
    inbox,                \* frames sent by client c and not yet decoded
    peer,                 \* "open", or "closed" once the client closed
    command,              \* the message the handler is working on (0: none)
    \* ---- ANPSocket: one routine applied to one byte stream
    ENCRYPTION_PASSWORD,  \* saq.ENCRYPTION_PASSWORD: "None", "" or a secret
    codec_op,             \* the routine applied ("idle": none yet)
    codec_msg,            \* the message given to send_message
    codec_data,           \* the bytes given to the routine (a stream, a file)
    codec_count,          \* the count given to read_n_bytes
    wire,                 \* the bytes waiting at the reading socket
    wire_eof,             \* the peer closed after the last byte of wire
    short_reads,          \* recv may return fewer bytes than are available
    out_kind,             \* how the routine ended
    out_bytes,            \* the bytes it returned / wrote to the sink
    out_msg,              \* the message it returned
    out_rest              \* the bytes it left at the socket

server_vars == << control_event, tcp_server_thread, tcp_server_socket,
                  tcp_client_threads, stop_pc >>
conn_vars == << client_pc, client_socket, inbox, peer, command >>
codec_vars == << ENCRYPTION_PASSWORD, codec_op, codec_msg, codec_data,
                 codec_count, wire, wire_eof, short_reads, out_kind, out_bytes,
                 out_msg, out_rest >>
vars == << server_vars, conn_vars, codec_vars >>

\* --------------------------------------------------------------- helpers

\* Mutant: a remove whose update of the list is lost.
RemoveLost(list, x) == list

\* list.remove(x): drops the first occurrence of x.
RECURSIVE Remove(_, _)
Remove(list, x) ==
    IF list = << >> THEN << >>
    ELSE IF Head(list) = x THEN Tail(list)
    ELSE << Head(list) >> \o Remove(Tail(list), x)

\* Mutant: a lookup that falls back to a default class for any id.
KnownCommandAny(m) == TRUE

\* ANP_CLASS_LOOKUP[command] succeeds.
KnownCommand(m) == m \in ANP_CLASS_LOOKUP

\* ------------------------------------------------------- ANPSocket: bytes

Min(a, b) == IF a < b THEN a ELSE b

\* s[:k] and s[k:] of a byte string.
Take(s, k) == SubSeq(s, 1, Min(k, Len(s)))
Drop(s, k) == SubSeq(s, Min(k, Len(s)) + 1, Len(s))

\* bytearray(count): count zero bytes. The first slice assignment of
\* read_n_bytes replaces it as a whole and it is returned only after one, so
\* no more of it is built than the stream can fill.
ByteArray(count, avail) == [i \in 1 .. Min(count, avail) |-> 0]

\* byte_buffer[i:i + n] = data on a bytearray: the slice, cut to the buffer's
\* length, is replaced by data, whatever the two lengths.
SliceAssign(buf, i, n, data) ==
    LET lo == Min(i, Len(buf))
        hi == IF n >= Len(buf) - lo THEN Len(buf) ELSE lo + n
    IN  SubSeq(buf, 1, lo) \o data \o SubSeq(buf, hi + 1, Len(buf))

\* The numbers of bytes one recv(chunk_size) may return with avail > 0 bytes
\* waiting: all it can when the stream delivers full reads, any from 1 on
\* when reads may be short.
RecvSizes(chunk_size, avail, short) ==
    IF short THEN 1 .. Min(chunk_size, avail) ELSE { Min(chunk_size, avail) }

\* The outcome of a read routine: kind is "ok" (a value), "none" (None: the
\* stream was closed), "error" (an exception) or "blocked" (recv never
\* returns: nothing waits and the peer keeps the connection open).
Outcome(kind, bytes, rest) == [kind |-> kind, bytes |-> bytes, rest |-> rest]

\* read_n_bytes' loop, run over every sequence of recv results at once:
\* frontier holds the executions still looping, each as the bytes left at
\* the socket, bytes_read and byte_buffer.
RECURSIVE read_n_bytes_loop(_, _, _, _)
read_n_bytes_loop(frontier, eof, short, count) ==
    IF frontier = {} THEN {}
    ELSE
    LET chunk_size == IF DEFAULT_BUFFER_SIZE < count
                      THEN DEFAULT_BUFFER_SIZE ELSE count
        returned == { f \in frontier : ~ (f.bytes_read < count) }
        looping  == frontier \ returned
        ended    == { f \in looping : f.s = << >> }
        next     == UNION { { [ s |-> Drop(f.s, k),
                                bytes_read |-> f.bytes_read + k,
                                byte_buffer |-> SliceAssign(f.byte_buffer,
                                                   f.bytes_read, count,
                                                   Take(f.s, k)) ]
                              : k \in RecvSizes(chunk_size, Len(f.s), short) }
                            : f \in looping \ ended }
    IN  { Outcome("ok", f.byte_buffer, f.s) : f \in returned }
        \cup { Outcome(IF ~ eof THEN "blocked"
                       ELSE IF f.bytes_read = 0 THEN "none" ELSE "error",
                       << >>, f.s) : f \in ended }
        \cup read_n_bytes_loop(next, eof, short, count)

\* read_n_bytes(count) on the stream s: the set of its possible outcomes.
read_n_bytes(s, eof, short, count) ==
    read_n_bytes_loop({ [ s |-> s, bytes_read |-> 0,
                          byte_buffer |-> ByteArray(count, Len(s)) ] },
                      eof, short, count)

\* write_n_bytes' loop over every sequence of send results: each send takes
\* from 1 to all of the bytes offered. frontier holds bytes_written and the
\* bytes put on the stream so far.
RECURSIVE write_n_bytes_loop(_, _)
write_n_bytes_loop(frontier, data) ==
    IF frontier = {} THEN {}
    ELSE
    LET chunk_size == IF DEFAULT_BUFFER_SIZE < Len(data)
                      THEN DEFAULT_BUFFER_SIZE ELSE Len(data)
        returned == { f \in frontier : ~ (f.bytes_written < Len(data)) }
        next     == UNION { { [ bytes_written |-> f.bytes_written + bytes_sent,
                                out |-> f.out \o
                                    Take(Take(Drop(data, f.bytes_written),
                                              chunk_size), bytes_sent) ]
                              : bytes_sent \in
                                1 .. Len(Take(Drop(data, f.bytes_written),
                                              chunk_size)) }
                            : f \in frontier \ returned }
    IN  { f.out : f \in returned } \cup write_n_bytes_loop(next, data)

\* Mutant: one send of the first chunk_size bytes, without the loop.
write_n_bytes_one_send(data) == { Take(data, DEFAULT_BUFFER_SIZE) }

\* write_n_bytes(data): the byte strings it may put on the stream.
write_n_bytes(data) ==
    write_n_bytes_loop({ [ bytes_written |-> 0, out |-> << >> ] }, data)

\* struct.pack('!I', value): 4 bytes, big-endian.
pack_uint(value) ==
    << (value \div 16777216) % 256, (value \div 65536) % 256,
       (value \div 256) % 256, value % 256 >>

\* struct.unpack('!I', data)[0] of 4 bytes. A value of 2^31 or more is given
\* as 2^31 - 1, the largest number of the model checker: it is no command id
\* and, as a length, more than any stream of the model holds, like the value
\* it stands for.
unpack_uint(data) ==
    IF data[1] >= 128 THEN 2147483647
    ELSE data[1] * 16777216 + data[2] * 65536 + data[3] * 256 + data[4]

\* [kind, value, rest]: the outcome of read_uint.
UintOutcome(kind, value, rest) == [kind |-> kind, value |-> value, rest |-> rest]

\* read_uint: read_n_bytes(4), None when that is None; struct.unpack raises
\* struct.error unless it is given exactly 4 bytes.
read_uint(s, eof, short) ==
    { IF o.kind = "ok"
      THEN IF Len(o.bytes) = UINT_SIZE
           THEN UintOutcome("ok", unpack_uint(o.bytes), o.rest)
           ELSE UintOutcome("error", 0, o.rest)
      ELSE UintOutcome(o.kind, 0, o.rest)
      : o \in read_n_bytes(s, eof, short, UINT_SIZE) }

\* write_uint
write_uint(value) == write_n_bytes(pack_uint(value))

\* saq.crypto.encrypt_chunk: a marker byte, then every byte shifted by one.
encrypt_chunk(chunk) ==
    << CIPHER_MARK >> \o [i \in 1 .. Len(chunk) |-> (chunk[i] + 1) % 256]

\* saq.crypto.decrypt_chunk: the inverse of encrypt_chunk; it raises on bytes
\* that encrypt_chunk did not produce.
decrypt_chunk_ok(chunk) == chunk # << >> /\ chunk[1] = CIPHER_MARK
decrypt_chunk(chunk) ==
    [i \in 1 .. Len(chunk) - 1 |-> (chunk[i + 1] + 255) % 256]

\* read_data
read_data(s, eof, short, password) ==
    UNION {
      IF u.kind # "ok" THEN { Outcome(u.kind, << >>, u.rest) }
      ELSE IF u.value = 0 THEN { Outcome("ok", << >>, u.rest) }
      ELSE { IF password = "None"
             THEN r  \* return result: the bytes, or None
             ELSE IF r.kind = "ok"
                  THEN IF decrypt_chunk_ok(r.bytes)
                       THEN Outcome("ok", decrypt_chunk(r.bytes), r.rest)
                       ELSE Outcome("error", << >>, r.rest)
                  ELSE IF r.kind = "none"
                       THEN Outcome("error", << >>, r.rest) \* decrypt_chunk(None)
                       ELSE r
             : r \in read_n_bytes(u.rest, eof, short, u.value) }
      : u \in read_uint(s, eof, short) }

\* Concatenation of the byte strings a set of writes may produce.
Then(first, second) == { a \o b : a \in first, b \in second }

\* write_data
write_data(value, password) ==
    LET v == IF password \notin { "None", "" } THEN encrypt_chunk(value) ELSE value
    IN  Then(write_uint(Len(v)),
             IF Len(v) > 0 THEN write_n_bytes(v) ELSE { << >> })

\* str.encode('utf16'): the byte order mark FF FE, then every code unit low
\* byte first.
RECURSIVE utf16_encode_units(_)
utf16_encode_units(text) ==
    IF text = << >> THEN << >>
    ELSE << Head(text) % 256, Head(text) \div 256 >>
         \o utf16_encode_units(Tail(text))
utf16_encode(text) == << 255, 254 >> \o utf16_encode_units(text)

\* bytes.decode('utf16'): a leading FF FE or FE FF gives the byte order and is
\* dropped, without one the low byte is first. An odd number of bytes and a
\* surrogate code unit (the model's texts hold none) raise UnicodeDecodeError.
utf16_big_endian(data) == Len(data) >= 2 /\ data[1] = 254 /\ data[2] = 255
utf16_body(data) ==
    IF Len(data) >= 2 /\ ( \/ (data[1] = 255 /\ data[2] = 254)
                           \/ (data[1] = 254 /\ data[2] = 255) )
    THEN Drop(data, 2) ELSE data
utf16_units(data) ==
    [i \in 1 .. (Len(utf16_body(data)) \div 2) |->
        IF utf16_big_endian(data)
        THEN utf16_body(data)[2 * i - 1] * 256 + utf16_body(data)[2 * i]
        ELSE utf16_body(data)[2 * i - 1] + utf16_body(data)[2 * i] * 256]
utf16_decode_ok(data) ==
    /\ Len(utf16_body(data)) % 2 = 0
    /\ \A i \in 1 .. Len(utf16_units(data)) :
          utf16_units(data)[i] < 55296 \/ utf16_units(data)[i] > 57343

\* read_string: the outcome's bytes are the text's code units.
read_string(s, eof, short, password) ==
    { IF d.kind = "ok"
      THEN IF utf16_decode_ok(d.bytes)
           THEN Outcome("ok", utf16_units(d.bytes), d.rest)
           ELSE Outcome("error", << >>, d.rest)
      ELSE d
      : d \in read_data(s, eof, short, password) }

\* write_string
write_string(text, password) == write_data(utf16_encode(text), password)

\* read_chunked_data's loop over every outcome of its reads: frontier holds
\* the executions still looping, each as the bytes left at the socket and the
\* bytes written to fp. fp.write(None) raises TypeError.
RECURSIVE read_chunked_data_loop(_, _, _, _)
read_chunked_data_loop(frontier, eof, short, password) ==
    IF frontier = {} THEN {}
    ELSE
    LET reads == UNION { { [ fp |-> f.fp, next_chunk |-> d ]
                           : d \in read_data(f.s, eof, short, password) }
                         : f \in frontier }
        broke == { r \in reads : r.next_chunk.kind = "ok"
                                 /\ r.next_chunk.bytes = LAST_CHUNK }
        wrote == { r \in reads : r.next_chunk.kind = "ok"
                                 /\ r.next_chunk.bytes # LAST_CHUNK }
        other == reads \ (broke \cup wrote)
    IN  { Outcome("ok", r.fp, r.next_chunk.rest) : r \in broke }
        \cup { Outcome(IF r.next_chunk.kind = "none" THEN "error"
                       ELSE r.next_chunk.kind, r.fp, r.next_chunk.rest)
               : r \in other }
        \cup read_chunked_data_loop(
                 { [ s |-> r.next_chunk.rest, fp |-> r.fp \o r.next_chunk.bytes ]
                   : r \in wrote },
                 eof, short, password)

\* read_chunked_data(fp) with fp empty: the outcome's bytes are fp's content.
read_chunked_data(s, eof, short, password) ==
    read_chunked_data_loop({ [ s |-> s, fp |-> << >> ] }, eof, short, password)

\* Mutant: the whole file written as one block, then the terminator.
write_chunked_data_one_block(fp, password) ==
    IF fp = LAST_CHUNK THEN write_data(fp, password)
    ELSE Then(write_data(fp, password), write_data(LAST_CHUNK, password))

\* write_chunked_data(fp): fp.read(DEFAULT_CHUNK_SIZE) of a file gives the
\* next DEFAULT_CHUNK_SIZE bytes, or what is left of it.
RECURSIVE write_chunked_data(_, _)
write_chunked_data(fp, password) ==
    LET chunk == Take(fp, DEFAULT_CHUNK_SIZE)
    IN  IF chunk = LAST_CHUNK
        THEN write_data(chunk, password)
        ELSE Then(write_data(chunk, password),
                  write_chunked_data(Drop(fp, DEFAULT_CHUNK_SIZE), password))

\* ------------------------------------------------------- ANPSocket: messages

\* A message: its command id, its string parameter (error_message, message,
\* target or path; param_none when the attribute is None) and, for COPY_FILE,
\* the content of the file (the source on the sending side, the target on the
\* receiving side).
Message(cmd, param, file) ==
    [command |-> cmd, param |-> param, param_none |-> FALSE, file |-> file]

NoMessage == [command |-> 0, param |-> << >>, param_none |-> FALSE, file |-> << >>]

\* The commands whose recv_parameters / send_parameters is one string.
StringCommands ==
    { ANP_COMMAND_ERROR, ANP_COMMAND_PING, ANP_COMMAND_PONG, ANP_COMMAND_PROCESS }

\* [kind, msg, rest]: the outcome of recv_message.
MessageOutcome(kind, msg, rest) == [kind |-> kind, msg |-> msg, rest |-> rest]

\* recv_parameters of the class of cmd. A string command stores what
\* read_string returns, None included. COPY_FILE joins SAQ_HOME and the path
\* (TypeError on None), opens the target and reads the chunked data into it.
recv_parameters(cmd, s, eof, short, password) ==
    IF cmd \in StringCommands THEN
        { IF t.kind = "ok" THEN MessageOutcome("ok", Message(cmd, t.bytes, << >>), t.rest)
          ELSE IF t.kind = "none"
          THEN MessageOutcome("ok", [Message(cmd, << >>, << >>)
                                        EXCEPT !.param_none = TRUE], t.rest)
          ELSE MessageOutcome(t.kind, NoMessage, t.rest)
          : t \in read_string(s, eof, short, password) }
    ELSE IF cmd = ANP_COMMAND_COPY_FILE THEN
        UNION {
          IF t.kind = "ok"
          THEN { IF f.kind = "ok"
                 THEN MessageOutcome("ok", Message(cmd, t.bytes, f.bytes), f.rest)
                 ELSE MessageOutcome(f.kind, NoMessage, f.rest)
                 : f \in read_chunked_data(t.rest, eof, short, password) }
          ELSE { MessageOutcome(IF t.kind = "none" THEN "error" ELSE t.kind,
                                NoMessage, t.rest) }
          : t \in read_string(s, eof, short, password) }
    ELSE { MessageOutcome("ok", Message(cmd, << >>, << >>), s) }

\* recv_message: the set of its possible outcomes on the stream s.
recv_message(s, eof, short, password) ==
    UNION {
      IF u.kind # "ok" THEN { MessageOutcome(u.kind, NoMessage, u.rest) }
      ELSE IF ~ KnownCommand(u.value)
      THEN { MessageOutcome("error", NoMessage, u.rest) }
      ELSE recv_parameters(u.value, u.rest, eof, short, password)
      : u \in read_uint(s, eof, short) }

\* send_parameters of the message's class.
send_parameters(msg, password) ==
    IF msg.command \in StringCommands THEN write_string(msg.param, password)
    ELSE IF msg.command = ANP_COMMAND_COPY_FILE
    THEN Then(write_string(msg.param, password),
              write_chunked_data(msg.file, password))
    ELSE { << >> }

\* send_message: the byte strings it may put on the stream.
send_message(msg, password) ==
    Then(write_uint(msg.command), send_parameters(msg, password))

\* ------------------------------------------------------- codec inputs

\* The texts given as string parameters: every text of up to MaxTextLen
\* characters over 'h' and the euro sign (a code unit with a high byte).
Chars == { 104, 8364 }
RECURSIVE TextsOfLen(_)
TextsOfLen(n) ==
    IF n = 0 THEN { << >> }
    ELSE { << ch >> \o t : ch \in Chars, t \in TextsOfLen(n - 1) }
Texts == UNION { TextsOfLen(n) : n \in 0 .. MaxTextLen }

\* A byte string of length n whose bytes are all different: 1, 2, ..., n.
Bytes(n) == [i \in 1 .. n |-> i]

\* The lengths of the files sent: none, one byte, and around one chunk.
FileLengths ==
    { 0, 1, DEFAULT_CHUNK_SIZE - 1, DEFAULT_CHUNK_SIZE, DEFAULT_CHUNK_SIZE + 1 }

\* The messages sent: every variant, every text; COPY_FILE with a path that
\* names a file (one character) and every file length.
Messages ==
    { Message(cmd, << >>, << >>) : cmd \in ANP_CLASS_LOOKUP
                                         \ (StringCommands \cup { ANP_COMMAND_COPY_FILE }) }
    \cup { Message(cmd, t, << >>) : cmd \in StringCommands, t \in Texts }
    \cup { Message(ANP_COMMAND_COPY_FILE, t, Bytes(n))
           : t \in TextsOfLen(1), n \in FileLengths }

\* What follows on the stream: nothing, or the next frame (a REGISTER).
Followers == { << >>, pack_uint(ANP_COMMAND_REGISTER) }

Passwords == { "None", "", "secret" }

\* The frames cut short by the peer closing: a complete command id of a
\* variant with a payload and nothing else, or that and the length prefix of
\* its first block (for a text of one character) but none of the block.
TruncatedFrames ==
    { pack_uint(cmd) : cmd \in StringCommands \cup { ANP_COMMAND_COPY_FILE } }
    \cup { pack_uint(cmd) \o pack_uint(Len(utf16_encode(<< 104 >>)))
           : cmd \in StringCommands \cup { ANP_COMMAND_COPY_FILE } }

\* ------------------------------------------------------- codec state machine

CodecIdle ==
    /\ codec_op = "idle"
    /\ codec_msg = NoMessage
    /\ codec_data = << >>
    /\ codec_count = 0
    /\ wire = << >>
    /\ wire_eof = FALSE
    /\ short_reads = FALSE
    /\ out_kind = "idle"
    /\ out_bytes = << >>
    /\ out_msg = NoMessage
    /\ out_rest = << >>

\* read_n_bytes(count) applied to a stream.
ApplyReadNBytes ==
    /\ codec_op = "idle"
    /\ \E n \in 0 .. MaxStream, count \in 1 .. MaxCount,
          eof \in BOOLEAN, short \in BOOLEAN :
          \E o \in read_n_bytes(Bytes(n), eof, short, count) :
             /\ codec_op' = "read_n_bytes"
             /\ codec_count' = count
             /\ wire' = Bytes(n)
             /\ wire_eof' = eof
             /\ short_reads' = short
             /\ out_kind' = o.kind
             /\ out_bytes' = o.bytes
             /\ out_rest' = o.rest
    /\ UNCHANGED << server_vars, conn_vars, ENCRYPTION_PASSWORD, codec_msg,
                    codec_data, out_msg >>

\* send_message(msg) at one end, whatever follows it on the stream, and
\* recv_message at the other end.
ApplyRecvMessage ==
    /\ codec_op = "idle"
    /\ \E msg \in Messages, follower \in Followers,
          eof \in BOOLEAN, short \in BOOLEAN :
          \E w \in send_message(msg, ENCRYPTION_PASSWORD) :
          \E o \in recv_message(w \o follower, eof, short, ENCRYPTION_PASSWORD) :
             /\ codec_op' = "recv_message"
             /\ codec_msg' = msg
             /\ codec_data' = follower
             /\ wire' = w \o follower
             /\ wire_eof' = eof
             /\ short_reads' = short
             /\ out_kind' = o.kind
             /\ out_msg' = o.msg
             /\ out_rest' = o.rest
    /\ UNCHANGED << server_vars, conn_vars, ENCRYPTION_PASSWORD, codec_count,
                    out_bytes >>

\* recv_message on a stream the peer closed before the next frame (wire
\* empty) or inside one (a truncated frame).
ApplyRecvClosed ==
    /\ codec_op = "idle"
    /\ \E w \in TruncatedFrames \cup { << >> }, short \in BOOLEAN :
          \E o \in recv_message(w, TRUE, short, ENCRYPTION_PASSWORD) :
             /\ codec_op' = "recv_closed"
             /\ wire' = w
             /\ wire_eof' = TRUE
             /\ short_reads' = short
             /\ out_kind' = o.kind
             /\ out_msg' = o.msg
             /\ out_rest' = o.rest
    /\ UNCHANGED << server_vars, conn_vars, ENCRYPTION_PASSWORD, codec_msg,
                    codec_data, codec_count, out_bytes >>

\* write_chunked_data(data) at one end and read_chunked_data at the other,
\* with every byte written waiting at the reader.
ApplyChunked ==
    /\ codec_op = "idle"
    /\ \E n \in FileLengths, eof \in BOOLEAN, short \in BOOLEAN :
          \E w \in write_chunked_data(Bytes(n), ENCRYPTION_PASSWORD) :
          \E o \in read_chunked_data(w, eof, short, ENCRYPTION_PASSWORD) :
             /\ codec_op' = "chunked"
             /\ codec_data' = Bytes(n)
             /\ wire' = w
             /\ wire_eof' = eof
             /\ short_reads' = short
             /\ out_kind' = o.kind
             /\ out_bytes' = o.bytes
             /\ out_rest' = o.rest
    /\ UNCHANGED << server_vars, conn_vars, ENCRYPTION_PASSWORD, codec_msg,
                    codec_count, out_msg >>

\* write_n_bytes(data) on a socket whose send may take any part of what it
\* is offered: wire is what arrived on the stream.
ApplyWriteNBytes ==
    /\ codec_op = "idle"
    /\ \E n \in 0 .. MaxStream :
          \E w \in write_n_bytes(Bytes(n)) :
             /\ codec_op' = "write_n_bytes"
             /\ codec_data' = Bytes(n)
             /\ wire' = w
             /\ out_kind' = "ok"
    /\ UNCHANGED << server_vars, conn_vars, ENCRYPTION_PASSWORD, codec_msg,
                    codec_count, wire_eof, short_reads, out_bytes, out_msg,
                    out_rest >>

\* write_data(value) at one end and read_data at the other, both under the
\* same saq.ENCRYPTION_PASSWORD, with nothing else on the stream.
ApplyData ==
    /\ codec_op = "idle"
    /\ \E n \in 0 .. MaxCount, eof \in BOOLEAN, short \in BOOLEAN :
          \E w \in write_data(Bytes(n), ENCRYPTION_PASSWORD) :
          \E o \in read_data(w, eof, short, ENCRYPTION_PASSWORD) :
             /\ codec_op' = "data"
             /\ codec_data' = Bytes(n)
             /\ wire' = w
             /\ wire_eof' = eof
             /\ short_reads' = short
             /\ out_kind' = o.kind
             /\ out_bytes' = o.bytes
             /\ out_rest' = o.rest
    /\ UNCHANGED << server_vars, conn_vars, ENCRYPTION_PASSWORD, codec_msg,
                    codec_count, out_msg >>

\* read_data on a stream the peer closed with nothing on it.
ApplyDataClosed ==
    /\ codec_op = "idle"
    /\ \E short \in BOOLEAN :
          \E o \in read_data(<< >>, TRUE, short, ENCRYPTION_PASSWORD) :
             /\ codec_op' = "data_closed"
             /\ wire' = << >>
             /\ wire_eof' = TRUE
             /\ short_reads' = short
             /\ out_kind' = o.kind
             /\ out_bytes' = o.bytes
             /\ out_rest' = o.rest
    /\ UNCHANGED << server_vars, conn_vars, ENCRYPTION_PASSWORD, codec_msg,
                    codec_data, codec_count, out_msg >>

\* write_chunked_data(data) at one end, followed on the stream by whatever
\* the writer sends next (codec_count bytes), and read_chunked_data at the
\* other end.
ApplyChunkedFollowed ==
    /\ codec_op = "idle"
    /\ \E n \in FileLengths, follower \in Followers,
          eof \in BOOLEAN, short \in BOOLEAN :
          \E w \in write_chunked_data(Bytes(n), ENCRYPTION_PASSWORD) :
          \E o \in read_chunked_data(w \o follower, eof, short,
                                     ENCRYPTION_PASSWORD) :
             /\ codec_op' = "chunked_followed"
             /\ codec_data' = Bytes(n)
             /\ codec_count' = Len(follower)
             /\ wire' = w \o follower
             /\ wire_eof' = eof
             /\ short_reads' = short
             /\ out_kind' = o.kind
             /\ out_bytes' = o.bytes
             /\ out_rest' = o.rest
    /\ UNCHANGED << server_vars, conn_vars, ENCRYPTION_PASSWORD, codec_msg,
                    out_msg >>

\* read_chunked_data on what write_chunked_data(data) wrote, cut by the peer
\* closing after codec_count bytes, before the end of the terminator.
ApplyChunkedCut ==
    /\ codec_op = "idle"
    /\ \E n \in FileLengths, short \in BOOLEAN :
          \E w \in write_chunked_data(Bytes(n), ENCRYPTION_PASSWORD) :
          \E cut \in 0 .. Len(w) - 1 :
          \E o \in read_chunked_data(Take(w, cut), TRUE, short,
                                     ENCRYPTION_PASSWORD) :
             /\ codec_op' = "chunked_cut"
             /\ codec_data' = Bytes(n)
             /\ codec_count' = cut
             /\ wire' = Take(w, cut)
             /\ wire_eof' = TRUE
             /\ short_reads' = short
             /\ out_kind' = o.kind
             /\ out_bytes' = o.bytes
             /\ out_rest' = o.rest
    /\ UNCHANGED << server_vars, conn_vars, ENCRYPTION_PASSWORD, codec_msg,
                    out_msg >>

CodecNext ==
    \/ ApplyReadNBytes
    \/ ApplyRecvMessage
    \/ ApplyRecvClosed
    \/ ApplyChunked
    \/ ApplyWriteNBytes
    \/ ApplyData
    \/ ApplyDataClosed
    \/ ApplyChunkedFollowed
    \/ ApplyChunkedCut

\* ------------------------------------------------------------------ Init

ServerInit ==
    /\ control_event = "None"
    /\ tcp_server_thread = "None"
    /\ tcp_server_socket = "None"
    /\ tcp_client_threads = << >>
    /\ stop_pc = "idle"
    /\ client_pc = [c \in Clients |-> "none"]
    /\ client_socket = [c \in Clients |-> "None"]
    /\ inbox = [c \in Clients |-> << >>]
    /\ peer = [c \in Clients |-> "open"]
    /\ command = [c \in Clients |-> 0]

\* The server after __init__; no codec routine is under study.
Init ==
    /\ ServerInit
    /\ ENCRYPTION_PASSWORD = "None"
    /\ CodecIdle

\* A codec routine is to be applied, under any encryption configuration.
CodecInit ==
    /\ ServerInit
    /\ ENCRYPTION_PASSWORD \in Passwords
    /\ CodecIdle

\* ------------------------------------------------------- start() / stop()

\* start(): a fresh control event and the accept loop thread.
Start ==
    /\ tcp_server_thread = "None"
    /\ control_event' = "unset"
    /\ tcp_server_thread' = "loop"
    /\ UNCHANGED << tcp_server_socket, tcp_client_threads, stop_pc,
                    conn_vars, codec_vars >>

\* stop(), first half: control_event.set().
StopSet ==
    /\ control_event # "None"
    /\ stop_pc \in { "idle", "returned" }
    /\ control_event' = "set"
    /\ stop_pc' = "joining"
    /\ UNCHANGED << tcp_server_thread, tcp_server_socket, tcp_client_threads,
                    conn_vars, codec_vars >>

\* stop(), second half: tcp_server_thread.join() returns once the thread ended.
StopJoin ==
    /\ stop_pc = "joining"
    /\ tcp_server_thread = "done"
    /\ stop_pc' = "returned"
    /\ UNCHANGED << control_event, tcp_server_thread, tcp_server_socket,
                    tcp_client_threads, conn_vars, codec_vars >>

\* ------------------------------------------------------- tcp_server_loop

\* Mutant: close_tcp_server_socket that does not discard the socket.
close_tcp_server_socket_keeps(sock) == sock

\* close_tcp_server_socket(): the socket is closed and set to None.
close_tcp_server_socket(sock) == "None"

\* Mutant: a loop that never looks at control_event (while True).
ServerLoopIgnoresEvent ==
    /\ tcp_server_thread = "loop"
    /\ \/ /\ tcp_server_socket = "None"
          /\ tcp_server_socket' = "open"
          /\ tcp_server_thread' = "accept"
       \/ /\ tcp_server_socket = "None"
          /\ tcp_server_socket' = "None"
          /\ tcp_server_thread' = "loop"
       \/ /\ tcp_server_socket # "None"
          /\ tcp_server_socket' = tcp_server_socket
          /\ tcp_server_thread' = "accept"
    /\ UNCHANGED << control_event, tcp_client_threads, stop_pc, conn_vars,
                    codec_vars >>

\* One turn of the loop up to the accept() call: the loop condition, then
\* tcp_server_execute's first half. With the event set the loop ends: the
\* listening socket is closed and discarded and the thread ends. With no
\* listening socket one is created; socket(), setsockopt, settimeout, bind or
\* listen may raise: the loop's handler then closes and discards the socket
\* and sleeps.
ServerLoop ==
    /\ tcp_server_thread = "loop"
    /\ \/ /\ control_event = "set"
          /\ tcp_server_socket' = close_tcp_server_socket(tcp_server_socket)
          /\ tcp_server_thread' = "done"
       \/ /\ control_event # "set"
          /\ tcp_server_socket = "None"
          /\ tcp_server_socket' = "open"
          /\ tcp_server_thread' = "accept"
       \/ /\ control_event # "set"
          /\ tcp_server_socket = "None"
          /\ tcp_server_socket' = close_tcp_server_socket("open")
          /\ tcp_server_thread' = "loop"
       \/ /\ control_event # "set"
          /\ tcp_server_socket # "None"
          /\ tcp_server_socket' = tcp_server_socket
          /\ tcp_server_thread' = "accept"
    /\ UNCHANGED << control_event, tcp_client_threads, stop_pc, conn_vars,
                    codec_vars >>

\* Mutant: a listening socket without settimeout(1); accept() never times out.
AcceptNeverTimesOut == FALSE /\ UNCHANGED vars

\* accept() raises socket.timeout after the 1 second set by settimeout(1):
\* tcp_server_execute returns, and the loop sleeps.
AcceptTimeout ==
    /\ tcp_server_thread = "accept"
    /\ tcp_server_thread' = "loop"
    /\ UNCHANGED << control_event, tcp_server_socket, tcp_client_threads,
                    stop_pc, conn_vars, codec_vars >>

\* Client c connects and accept() returns its connection: the worker thread
\* is appended to tcp_client_threads and started, and the loop sleeps. The
\* clients are numbered in the order in which they connect.
AcceptConnection(c) ==
    /\ tcp_server_thread = "accept"
    /\ client_pc[c] = "none"
    /\ \A d \in Clients : d < c => client_pc[d] # "none"
    /\ tcp_client_threads' = Append(tcp_client_threads, c)
    /\ client_pc' = [client_pc EXCEPT ![c] = "loop"]
    /\ client_socket' = [client_socket EXCEPT ![c] = "open"]
    /\ tcp_server_thread' = "loop"
    /\ UNCHANGED << control_event, tcp_server_socket, stop_pc, inbox, peer,
                    command, codec_vars >>

\* Mutant: an accept loop without its try/except; the exception ends the thread.
AcceptErrorEndsLoop ==
    /\ tcp_server_thread = "accept"
    /\ tcp_server_thread' = "done"
    /\ UNCHANGED << control_event, tcp_server_socket, tcp_client_threads,
                    stop_pc, conn_vars, codec_vars >>

\* accept() raises anything but socket.timeout: the loop's handler closes and
\* discards the listening socket, and the loop sleeps.
AcceptError ==
    /\ tcp_server_thread = "accept"
    /\ tcp_server_socket' = close_tcp_server_socket(tcp_server_socket)
    /\ tcp_server_thread' = "loop"
    /\ UNCHANGED << control_event, tcp_client_threads, stop_pc, conn_vars,
                    codec_vars >>

\* ------------------------------------------------------- the peers

\* Whether client c's connection was accepted and its worker has not ended.
Connected(c) == client_pc[c] \notin { "none", "done" }

\* The number of frames in the inboxes of the connections 1 .. n.
RECURSIVE InFlight(_)
InFlight(n) == IF n = 0 THEN 0 ELSE Len(inbox[n]) + InFlight(n - 1)

\* A connected client writes one frame with command id m.
Send(c, m) ==
    /\ Connected(c)
    /\ peer[c] = "open"
    /\ InFlight(MaxClients) < MaxInFlight
    /\ inbox' = [inbox EXCEPT ![c] = Append(@, m)]
    /\ UNCHANGED << server_vars, client_pc, client_socket, peer, command,
                    codec_vars >>

\* A connected client closes its end at a frame boundary.
Close(c) ==
    /\ Connected(c)
    /\ peer[c] = "open"
    /\ peer' = [peer EXCEPT ![c] = "closed"]
    /\ UNCHANGED << server_vars, client_pc, client_socket, inbox, command,
                    codec_vars >>

\* ------------------------------------------------------- tcp_client_loop

\* The local socket_closed of tcp_client_loop: assigned False once and never
\* again (the value tcp_client_execute returns is dropped).
socket_closed(c) == FALSE

\* Mutant: a loop condition without the shutdown flag (while not socket_closed).
ClientLoopIgnoresEvent(c) ==
    /\ client_pc[c] = "loop"
    /\ client_pc' = [client_pc EXCEPT ![c] =
           IF socket_closed(c) THEN "exit" ELSE "recv"]
    /\ UNCHANGED << server_vars, client_socket, inbox, peer, command,
                    codec_vars >>

\* while not socket_closed and not self.control_event.is_set()
ClientLoop(c) ==
    /\ client_pc[c] = "loop"
    /\ client_pc' = [client_pc EXCEPT ![c] =
           IF socket_closed(c) \/ control_event = "set" THEN "exit" ELSE "recv"]
    /\ UNCHANGED << server_vars, client_socket, inbox, peer, command,
                    codec_vars >>

\* Where the worker goes when tcp_client_execute returned False (no message,
\* or EXIT): the loop does not look at the value.
AfterReturnFalse == "loop"

\* Where the worker goes when tcp_client_execute raised: except ... break.
AfterException == "exit"

\* tcp_client_execute up to the handler call: recv_message, which blocks while
\* the peer is silent and open.
ClientRecv(c) ==
    /\ client_pc[c] = "recv"
    /\ \/ \* recv_message returns None: the peer closed at a frame boundary
          /\ inbox[c] = << >>
          /\ peer[c] = "closed"
          /\ client_pc' = [client_pc EXCEPT ![c] = AfterReturnFalse]
          /\ UNCHANGED << inbox, command >>
       \/ \* unknown command id: ANPException out of recv_message
          /\ inbox[c] # << >>
          /\ ~ KnownCommand(Head(inbox[c]))
          /\ client_pc' = [client_pc EXCEPT ![c] = AfterException]
          /\ inbox' = [inbox EXCEPT ![c] = Tail(@)]
          /\ UNCHANGED command
       \/ \* EXIT
          /\ inbox[c] # << >>
          /\ KnownCommand(Head(inbox[c]))
          /\ Head(inbox[c]) = ANP_COMMAND_EXIT
          /\ client_pc' = [client_pc EXCEPT ![c] = AfterReturnFalse]
          /\ inbox' = [inbox EXCEPT ![c] = Tail(@)]
          /\ UNCHANGED command
       \/ \* any other message goes to the command handler
          /\ inbox[c] # << >>
          /\ KnownCommand(Head(inbox[c]))
          /\ Head(inbox[c]) # ANP_COMMAND_EXIT
          /\ client_pc' = [client_pc EXCEPT ![c] = "handler"]
          /\ command' = [command EXCEPT ![c] = Head(inbox[c])]
          /\ inbox' = [inbox EXCEPT ![c] = Tail(@)]
    /\ UNCHANGED << server_vars, client_socket, peer, codec_vars >>

\* self.command_handler(anp, command) returns, and tcp_client_execute with it.
HandlerReturns(c) ==
    /\ client_pc[c] = "handler"
    /\ client_pc' = [client_pc EXCEPT ![c] = "loop"]
    /\ command' = [command EXCEPT ![c] = 0]
    /\ UNCHANGED << server_vars, client_socket, inbox, peer, codec_vars >>

\* self.command_handler(anp, command) raises.
HandlerRaises(c) ==
    /\ client_pc[c] = "handler"
    /\ client_pc' = [client_pc EXCEPT ![c] = "raised"]
    /\ UNCHANGED << server_vars, client_socket, inbox, peer, command,
                    codec_vars >>

\* Mutant: the handler's exception leaves tcp_client_execute and breaks the loop.
AfterHandlerExceptionPropagates == AfterException

\* Where the worker goes when the command handler raised: the except around
\* the call logs and reports the exception, and tcp_client_execute returns
\* as after a call that returned.
AfterHandlerException == "loop"

\* except Exception as e: logging.error(...); report_exception()
HandlerExcept(c) ==
    /\ client_pc[c] = "raised"
    /\ client_pc' = [client_pc EXCEPT ![c] = AfterHandlerException]
    /\ command' = [command EXCEPT ![c] = 0]
    /\ UNCHANGED << server_vars, client_socket, inbox, peer, codec_vars >>

\* client_socket.shutdown() is called without its argument: it raises
\* TypeError, which the bare except swallows. The socket stays as it was.
client_socket_shutdown(sock) == sock

\* After the loop: try: client_socket.shutdown() except: pass, then
\* self.tcp_client_threads.remove(threading.current_thread()); the thread ends.
ClientExit(c) ==
    /\ client_pc[c] = "exit"
    /\ client_socket' = [client_socket EXCEPT ![c] = client_socket_shutdown(@)]
    /\ tcp_client_threads' = Remove(tcp_client_threads, c)
    /\ client_pc' = [client_pc EXCEPT ![c] = "done"]
    /\ UNCHANGED << control_event, tcp_server_thread, tcp_server_socket,
                    stop_pc, inbox, peer, command, codec_vars >>

\* ------------------------------------------------------------------ Next

Next ==
    \/ Start
    \/ StopSet
    \/ StopJoin
    \/ ServerLoop
    \/ AcceptTimeout
    \/ AcceptError
    \/ \E c \in Clients : AcceptConnection(c)
    \/ \E c \in Clients : \E m \in SentCommands : Send(c, m)
    \/ \E c \in Clients : Close(c)
    \/ \E c \in Clients : ClientLoop(c)
    \/ \E c \in Clients : ClientRecv(c)
    \/ \E c \in Clients : HandlerReturns(c)
    \/ \E c \in Clients : HandlerRaises(c)
    \/ \E c \in Clients : HandlerExcept(c)
    \/ \E c \in Clients : ClientExit(c)

Spec == Init /\ [][Next]_vars

CodecSpec == CodecInit /\ [][CodecNext]_vars

\* The accept loop thread and the caller of stop() are scheduled fairly; the
\* 1 second timeout of accept() makes AcceptTimeout fire when nothing else
\* ends the call. Nothing is assumed about the peers, the command handler or
\* socket errors.
AcceptLoopFairness ==
    /\ WF_vars(ServerLoop)
    /\ WF_vars(AcceptTimeout)
    /\ WF_vars(StopJoin)

FairSpec == Init /\ [][Next]_vars /\ AcceptLoopFairness

\* ------------------------------------------------------- server claims

\* The worker of connection c has left its loop.
Finished(c) == client_pc[c] \in { "exit", "done" }

\* C1 (as claimed): when recv_message reports "no message" or the message is
\* EXIT, the worker leaves its loop (and then terminates and removes itself
\* from tcp_client_threads) without stop() being called.
C1_LeavesLoopOnCloseOrExit ==
    [][\A c \in Clients :
          ( /\ client_pc[c] = "recv"
            /\ client_pc'[c] # "recv"
            /\ (inbox[c] = << >> \/ Head(inbox[c]) = ANP_COMMAND_EXIT) )
          => Finished(c)']_vars

C7_UnknownCommandIsLocal ==
    [][\A c \in Clients :
          /\ ( /\ client_pc[c] = "recv"
               /\ client_pc'[c] # "recv"
               /\ inbox[c] # << >>
               /\ Head(inbox[c]) \notin ANP_CLASS_LOOKUP )
             => /\ client_pc'[c] = "exit"
                /\ command'[c] = command[c]
                /\ \A d \in Clients \ {c} : client_pc'[d] = client_pc[d]
                /\ server_vars' = server_vars
          /\ (client_pc[c] = "handler" /\ client_pc'[c] = "raised")
             => /\ \A d \in Clients \ {c} : client_pc'[d] = client_pc[d]
                /\ server_vars' = server_vars]_vars

\* C7 witness: a worker left its loop on an unknown command (the shutdown flag
\* is not set, so nothing else ends a loop) while another one is in the
\* handler and the accept loop is waiting in accept().
C7_Witness ==
    \E c, d \in Clients :
        /\ c # d
        /\ control_event = "unset"
        /\ client_pc[c] = "exit"
        /\ client_pc[d] = "handler"
        /\ tcp_server_thread = "accept"

\* C8: every stop() returns, whatever the workers do.
C8_StopReturns == (stop_pc = "joining") ~> (stop_pc = "returned")

\* C8 witness: stop() has returned while one worker is blocked in a read on a
\* silent peer and another is inside the handler.
C8_Witness ==
    /\ stop_pc = "returned"
    /\ \E c, d \in Clients :
          /\ client_pc[c] = "recv" /\ inbox[c] = << >> /\ peer[c] = "open"
          /\ client_pc[d] = "handler"

\* C9 (as claimed): when stop() has returned no worker is running and
\* tcp_client_threads is empty.
C9_StopWaitsForWorkers ==
    stop_pc = "returned" =>
        /\ tcp_client_threads = << >>
        /\ \A c \in Clients : client_pc[c] \in { "none", "done" }

\* C10: when stop() has returned the accept loop thread has ended and the
\* listening socket is closed and discarded.
C10_StoppedMeansClosed ==
    stop_pc = "returned" =>
        /\ tcp_server_thread = "done"
        /\ tcp_server_socket = "None"

\* C10 witness: stop() has returned on a server that listened and accepted.
C10_Witness ==
    /\ stop_pc = "returned"
    /\ tcp_client_threads # << >>

\* C11 (as claimed): no finished worker leaves its client socket open.
C11_FinishedMeansSocketClosed ==
    \A c \in Clients : client_pc[c] = "done" => client_socket[c] = "closed"

\* C12: the accept loop thread ends only with the shutdown flag set. A call of
\* accept() ends with the thread back at the head of its loop, either with the
\* listening socket kept (a timeout, a connection) or, on a failure, with the
\* socket discarded and no worker added. A turn of the loop that finds no
\* listening socket creates a fresh one, or fails and leaves none; the loop
\* waits in accept() on an open socket only.
C12_AcceptLoopSelfHeals ==
    [][ /\ (tcp_server_thread # "done" /\ tcp_server_thread' = "done")
              => control_event = "set"
        /\ (tcp_server_thread = "accept" /\ tcp_server_thread' # "accept")
              => /\ tcp_server_thread' = "loop"
                 /\ \/ tcp_server_socket' = tcp_server_socket
                    \/ /\ tcp_server_socket' = "None"
                       /\ tcp_client_threads' = tcp_client_threads
        /\ (tcp_server_thread = "loop" /\ tcp_server_socket = "None"
                                       /\ control_event = "unset")
              => \/ tcp_server_thread' = "accept" /\ tcp_server_socket' = "open"
                 \/ tcp_server_thread' = "loop" /\ tcp_server_socket' = "None"
        /\ tcp_server_thread' = "accept" => tcp_server_socket' = "open" ]_vars

\* C12 witness: the server had accepted a connection, so it had a listening
\* socket; the socket is discarded, with the shutdown flag not set and the
\* loop about to create a fresh one.
C12_Witness ==
    /\ control_event = "unset"
    /\ tcp_server_thread = "loop"
    /\ tcp_server_socket = "None"
    /\ tcp_client_threads # << >>

\* C13 (as claimed): the handler is never invoked for a message that arrives
\* after an EXIT: from the moment a worker is about to decode an EXIT (it is
\* in recv_message and the EXIT is the next frame of the connection) the
\* handler is not called on that connection any more.
C13_NoHandlerAfterExit ==
    \A c \in Clients :
        []( ( /\ client_pc[c] = "recv"
              /\ inbox[c] # << >>
              /\ Head(inbox[c]) = ANP_COMMAND_EXIT )
            => [](client_pc[c] \notin { "handler", "raised" }) )

\* C14 (as claimed): with the shutdown flag set no connection is accepted and
\* no worker is spawned.
C14_NoAcceptAfterStop ==
    [][control_event = "set"
          => Len(tcp_client_threads') <= Len(tcp_client_threads)]_vars

\* C14 (amended): with the shutdown flag set (it stays set) the accept loop
\* begins no accept() call; a connection is accepted, and its worker spawned,
\* only by an accept() call that was waiting already, which that ends: at
\* most one more connection. Once stop() has returned none is accepted.
C14_OnlyTheAcceptInProgress ==
    [][control_event = "set"
          => /\ control_event' = "set"
             /\ tcp_server_thread # "accept" => tcp_server_thread' # "accept"
             /\ Len(tcp_client_threads') > Len(tcp_client_threads)
                   => /\ tcp_server_thread = "accept"
                      /\ tcp_server_thread' # "accept"
                      /\ stop_pc # "returned"]_vars

\* C14 witness: stop() has set the flag while accept() is waiting, no
\* connection was accepted so far, and a client has yet to connect.
C14_Witness ==
    /\ control_event = "set"
    /\ stop_pc = "joining"
    /\ tcp_server_thread = "accept"
    /\ tcp_client_threads = << >>
    /\ \E c \in Clients : client_pc[c] = "none"

\* C15: tcp_client_threads holds exactly the workers that were spawned and
\* have not finished, each once: a worker is in the list from the step that
\* accepts its connection to the step in which it removes itself, so the
\* remove of a worker that leaves its loop finds its entry.
C15_ActiveSetIsExact ==
    /\ \A c \in Clients :
          Connected(c) <=> \E i \in DOMAIN tcp_client_threads :
                              tcp_client_threads[i] = c
    /\ \A i, j \in DOMAIN tcp_client_threads :
          i # j => tcp_client_threads[i] # tcp_client_threads[j]

\* C15 witness: a worker has removed itself while another one is running and
\* the accept loop is in accept(): the list holds the other one only.
C15_Witness ==
    \E c, d \in Clients :
        /\ client_pc[c] = "done"
        /\ client_pc[d] \in { "recv", "handler" }
        /\ tcp_client_threads = << d >>
        /\ tcp_server_thread = "accept"

\* C20: with the shutdown flag set (it stays set) no worker begins a decode:
\* a worker that is not inside recv_message does not enter it, and one at the
\* head of its loop leaves the loop. So a worker decodes at most the one
\* message whose read was in progress when the flag was set, and a worker
\* that was between messages decodes none.
C20_AtMostTheReadInProgress ==
    [][control_event = "set"
          => /\ control_event' = "set"
             /\ \A c \in Clients :
                   /\ client_pc[c] # "recv" => client_pc'[c] # "recv"
                   /\ (client_pc[c] = "loop" /\ client_pc'[c] # "loop")
                         => client_pc'[c] = "exit"]_vars

\* C20 witness: the flag is set; one worker is inside recv_message with a
\* message for the handler waiting, another is at the head of its loop.
C20_Witness ==
    \E c, d \in Clients :
        /\ control_event = "set"
        /\ client_pc[c] = "recv"
        /\ inbox[c] # << >>
        /\ Head(inbox[c]) = ANP_COMMAND_REGISTER
        /\ client_pc[d] = "loop"

\* ------------------------------------------------------- codec claims

\* C3 (as claimed): read_n_bytes(n) on a stream that holds at least n bytes
\* returns exactly the next n bytes and leaves every byte after them at the
\* socket, whatever the sizes of the reads.
C3_ReadsExactlyN ==
    (codec_op = "read_n_bytes" /\ Len(wire) >= codec_count) =>
        /\ out_kind = "ok"
        /\ out_bytes = Take(wire, codec_count)
        /\ out_rest = Drop(wire, codec_count)

\* C4 (as claimed): when the peer closes after a complete command id of a
\* variant with a payload, or after the length prefix of a block, recv_message
\* fails and returns no message; when it closes before any byte of a frame,
\* recv_message returns "no message" and does not fail.
C4_TruncatedIsError ==
    codec_op = "recv_closed" =>
        IF wire = << >>
        THEN out_kind = "none"
        ELSE out_kind = "error" /\ out_msg = NoMessage

\* C5 (as claimed), with encryption not configured: the message recv_message
\* returns is the message given to send_message, and the bytes that follow
\* the frame are left at the socket.
C5_RoundTrip ==
    (codec_op = "recv_message" /\ ENCRYPTION_PASSWORD = "None") =>
        /\ out_kind = "ok"
        /\ out_msg = codec_msg
        /\ out_rest = codec_data

\* C6 (as claimed), with encryption not configured: read_chunked_data on the
\* bytes of write_chunked_data(data), all of them waiting at the reader,
\* writes exactly data to the sink, for data of 0, 1, DEFAULT_CHUNK_SIZE - 1,
\* DEFAULT_CHUNK_SIZE and DEFAULT_CHUNK_SIZE + 1 bytes.
C6_ChunkedRoundTrip ==
    (codec_op = "chunked" /\ ENCRYPTION_PASSWORD = "None") =>
        /\ out_kind = "ok"
        /\ out_bytes = codec_data
        /\ out_rest = << >>

\* C16 (as claimed): under every value of saq.ENCRYPTION_PASSWORD (None, the
\* empty string, a secret), with reads that return all they are asked for,
\* read_data returns the payload given to write_data and leaves nothing, and
\* the first 4 bytes of the stream are the number of bytes that follow them.
C16_EncryptIffDecrypt ==
    (codec_op = "data" /\ ~ short_reads) =>
        /\ out_kind = "ok"
        /\ out_bytes = codec_data
        /\ out_rest = << >>
        /\ Len(wire) >= UINT_SIZE
        /\ unpack_uint(Take(wire, UINT_SIZE)) = Len(wire) - UINT_SIZE

\* The stream w is a chunked stream of data: blocks in clear, each of 1 to
\* DEFAULT_CHUNK_SIZE bytes behind its 4 byte length, whose concatenation is
\* data, then one block of length 0, then nothing.
RECURSIVE ChunkedStreamOf(_, _)
ChunkedStreamOf(w, data) ==
    /\ Len(w) >= UINT_SIZE
    /\ LET n == unpack_uint(Take(w, UINT_SIZE))
       IN  IF n = 0 THEN data = << >> /\ Len(w) = UINT_SIZE
           ELSE /\ n <= DEFAULT_CHUNK_SIZE
                /\ n <= Len(data)
                /\ Len(w) >= UINT_SIZE + n
                /\ SubSeq(w, UINT_SIZE + 1, UINT_SIZE + n) = Take(data, n)
                /\ ChunkedStreamOf(Drop(w, UINT_SIZE + n), Drop(data, n))

\* C17: with encryption not configured, what write_chunked_data puts on the
\* stream is a chunked stream of the source: for the empty source the
\* terminator alone.
C17_ChunkedStreamFormat ==
    (codec_op = "chunked" /\ ENCRYPTION_PASSWORD = "None") =>
        /\ ChunkedStreamOf(wire, codec_data)
        /\ codec_data = << >> => wire = pack_uint(0)

\* C17 witness: a source longer than one chunk was written, in clear.
C17_Witness ==
    /\ codec_op = "chunked"
    /\ ENCRYPTION_PASSWORD = "None"
    /\ Len(codec_data) > DEFAULT_CHUNK_SIZE

\* C18 (as claimed), with encryption not configured: read_data returns the
\* empty byte string for a block of length 0 and None on a closed stream;
\* when read_chunked_data completes normally (here with reads that return
\* all they are asked for) the sink holds the blocks before the terminator
\* and the codec_count bytes that follow the terminator are left at the
\* socket; on a stream cut before the end of the terminator it ends with an
\* error.
C18_ChunkedReadStopsAtTerminator ==
    ENCRYPTION_PASSWORD = "None" =>
        /\ (codec_op = "data" /\ codec_data = << >>)
              => out_kind = "ok" /\ out_bytes = << >>
        /\ codec_op = "data_closed" => out_kind = "none"
        /\ (codec_op = "chunked_followed" /\ ~ short_reads /\ out_kind = "ok")
              => /\ out_bytes = codec_data
                 /\ out_rest = Drop(wire, Len(wire) - codec_count)
        /\ codec_op = "chunked_cut" => out_kind = "error"

\* C19: whatever part of the bytes offered each send takes, write_n_bytes
\* puts exactly the bytes of data on the stream, each once and in order;
\* for empty data nothing.
C19_WritesExactlyData ==
    codec_op = "write_n_bytes" => wire = codec_data

\* C19 witness: data longer than DEFAULT_BUFFER_SIZE was written: more than
\* one send even when each takes all it is offered.
C19_Witness ==
    /\ codec_op = "write_n_bytes"
    /\ Len(codec_data) > DEFAULT_BUFFER_SIZE
    /\ wire # << >>

====
